---------------------------- MODULE Spec2Model ----------------------------
(***************************************************************************)
(* A model of the InfoPulse AI backend: the cleaning pipeline              *)
(* process_dataset of backend/data_processor.py with its helpers, and the  *)
(* upload handler of backend/main.py with its content-hash registry.       *)
(*                                                                         *)
(* Text is a sequence of ASCII codes, so that str.title, str.lower, the    *)
(* two PII regular expressions and difflib's SequenceMatcher are computed  *)
(* character by character.  A cell is a record [t, n, s]: t is the kind    *)
(* ("nan", "num", "str", "date"), n the number and s the text.  A number   *)
(* is kept as twice its value, so that the median of an even count of      *)
(* integers (the mean of the two middle values) stays an integer.          *)
(***************************************************************************)
EXTENDS Integers, Sequences, FiniteSets, TLC

(***************************************************************************)
(* Evaluation                                                              *)
(***************************************************************************)

\* F(e), with e computed once: TLC computes a LET definition again at each
\* of its uses
Let(e, F(_)) == CHOOSE r \in {F(v) : v \in {e}} : TRUE

\* the set of the F(x), x in set
Image(F(_), set) == {F(x) : x \in set}

\* the function F on keys, as an explicit table
RECURSIVE Tabulate(_, _)
Tabulate(F(_), keys) ==
  IF keys = {} THEN <<>>
  ELSE LET k == CHOOSE x \in keys : TRUE
       IN  (k :> F(k)) @@ Tabulate(F, keys \ {k})

\* F(key), read from the table when the table has it
Lookup(table, key, F(_)) == IF key \in DOMAIN table THEN table[key] ELSE F(key)

\* the sequence f[1], ..., f[n], each element computed once
RECURSIVE Elements(_, _)
Elements(f, n) == IF n = 0 THEN <<>> ELSE Append(Elements(f, n - 1), f[n])

(***************************************************************************)
(* Characters and Python's str methods                                     *)
(***************************************************************************)

\* The printable ASCII characters, in code order from 32 (space) to 126.
Ascii ==
  << " ", "!", "DQUOTE", "#", "$", "%", "&", "'", "(", ")", "*", "+", ",", "-",
     ".", "/", "0", "1", "2", "3", "4", "5", "6", "7", "8", "9", ":", ";",
     "<", "=", ">", "?", "@", "A", "B", "C", "D", "E", "F", "G", "H", "I",
     "J", "K", "L", "M", "N", "O", "P", "Q", "R", "S", "T", "U", "V", "W",
     "X", "Y", "Z", "[", "BACKSLASH", "]", "^", "_", "BACKTICK", "a", "b", "c", "d", "e",
     "f", "g", "h", "i", "j", "k", "l", "m", "n", "o", "p", "q", "r", "s",
     "t", "u", "v", "w", "x", "y", "z", "{", "|", "}", "~" >>

Ord(c) == 31 + (CHOOSE i \in 1..Len(Ascii) : Ascii[i] = c)

\* A string literal, written as the tuple of its characters.
S(t) == [i \in 1..Len(t) |-> Ord(t[i])]

Digits == 48..57
UpperCase == 65..90
LowerCase == 97..122
Letters == UpperCase \cup LowerCase
\* tab, newline, vertical tab, form feed, carriage return, space
WhiteSpace == {9, 10, 11, 12, 13, 32}

ToLower(c) == IF c \in UpperCase THEN c + 32 ELSE c
ToUpper(c) == IF c \in LowerCase THEN c - 32 ELSE c

\* str.lower()
Lower(s) == [i \in 1..Len(s) |-> ToLower(s[i])]

\* str.title(): a cased character is upper-cased when the character before
\* it is not cased, and lower-cased when it is.
Title(s) ==
  [i \in 1..Len(s) |->
     IF i > 1 /\ s[i - 1] \in Letters THEN ToLower(s[i]) ELSE ToUpper(s[i])]

Min(X) == CHOOSE x \in X : \A y \in X : x <= y
Max(X) == CHOOSE x \in X : \A y \in X : x >= y

\* str.strip()
Strip(s) ==
  Let({i \in 1..Len(s) : s[i] \notin WhiteSpace},
      LAMBDA keep : IF keep = {} THEN <<>> ELSE SubSeq(s, Min(keep), Max(keep)))

\* (sub in s) for two strings
Contains(s, sub) ==
  \E i \in 1..(Len(s) - Len(sub) + 1) : SubSeq(s, i, i + Len(sub) - 1) = sub

\* the string without the characters of set
RECURSIVE RemoveChars(_, _)
RemoveChars(s, set) ==
  IF s = <<>> THEN <<>>
  ELSE IF Head(s) \in set THEN RemoveChars(Tail(s), set)
       ELSE <<Head(s)>> \o RemoveChars(Tail(s), set)

(***************************************************************************)
(* Regular expressions (module re): a backtracking matcher.  Match gives   *)
(* the positions where a match starting at i can end, in the order the     *)
(* backtracking engine tries them, so that its head is the match re finds. *)
(***************************************************************************)

Cls(set) == [op |-> "cls", set |-> set, kids |-> <<>>, lo |-> 1, hi |-> 1]
Cat(kids) == [op |-> "cat", set |-> {}, kids |-> kids, lo |-> 1, hi |-> 1]
\* kid{lo,hi}, greedy; hi = -1 is "no upper limit"
Rep(kid, lo, hi) == [op |-> "rep", set |-> {}, kids |-> <<kid>>, lo |-> lo, hi |-> hi]
Opt(kid) == Rep(kid, 0, 1)
Plus(kid) == Rep(kid, 1, -1)
Lit(c) == Cls({Ord(c)})
\* a|b: the first alternative is tried first
Alt(kids) == [op |-> "alt", set |-> {}, kids |-> kids, lo |-> 1, hi |-> 1]

RECURSIVE Match(_, _, _), MatchCat(_, _, _, _), CatEnds(_, _, _, _, _),
          MatchRep(_, _, _, _), RepEnds(_, _, _, _, _)
Match(r, s, i) ==
  CASE r.op = "cls" -> IF i <= Len(s) /\ s[i] \in r.set THEN <<i + 1>> ELSE <<>>
    [] r.op = "cat" -> MatchCat(r.kids, 1, s, i)
    [] r.op = "rep" -> MatchRep(r, s, i, 0)
    [] r.op = "alt" -> Match(r.kids[1], s, i) \o Match(r.kids[2], s, i)

MatchCat(kids, k, s, i) ==
  IF k > Len(kids) THEN <<i>>
  ELSE CatEnds(kids, k, s, Match(kids[k], s, i), 1)

CatEnds(kids, k, s, ends, j) ==
  IF j > Len(ends) THEN <<>>
  ELSE MatchCat(kids, k + 1, s, ends[j]) \o CatEnds(kids, k, s, ends, j + 1)

MatchRep(r, s, i, n) ==
  (IF r.hi = -1 \/ n < r.hi THEN RepEnds(r, s, Match(r.kids[1], s, i), 1, n) ELSE <<>>)
  \o (IF n >= r.lo THEN <<i>> ELSE <<>>)

RepEnds(r, s, ends, j, n) ==
  IF j > Len(ends) THEN <<>>
  ELSE MatchRep(r, s, ends[j], n + 1) \o RepEnds(r, s, ends, j + 1, n)

\* re.search from position `from`: <<start, end>> of the leftmost match
\* (end is the position after it), or <<0, 0>> when there is none.
RECURSIVE Search(_, _, _)
Search(r, s, from) ==
  IF from > Len(s) THEN <<0, 0>>
  ELSE Let(Match(r, s, from),
           LAMBDA ends : IF ends # <<>> THEN <<from, ends[1]>> ELSE Search(r, s, from + 1))

\* Series.str.contains(pattern, regex=True) on one cell's text
ReContains(r, s) == Search(r, s, 1)[1] # 0

\* re.findall(r, s[from:]) for a pattern without groups that matches no
\* empty string: the non-overlapping matches, leftmost first
RECURSIVE FindAll(_, _, _)
FindAll(r, s, from) ==
  Let(Search(r, s, from),
      LAMBDA m : IF m[1] = 0 THEN <<>>
                 ELSE <<SubSeq(s, m[1], m[2] - 1)>> \o FindAll(r, s, m[2]))

\* str.split(): the runs of characters that are not whitespace
RECURSIVE SplitFrom(_, _, _)
SplitFrom(s, i, word) ==
  IF i > Len(s) THEN (IF word = <<>> THEN <<>> ELSE <<word>>)
  ELSE IF s[i] \in WhiteSpace
  THEN (IF word = <<>> THEN <<>> ELSE <<word>>) \o SplitFrom(s, i + 1, <<>>)
  ELSE SplitFrom(s, i + 1, Append(word, s[i]))

Split(s) == SplitFrom(s, 1, <<>>)


\* EMAIL_PATTERN = r'[a-zA-Z0-9._%+-]+@[a-zA-Z0-9.-]+\.[a-zA-Z]{2,}'
EMAIL_PATTERN ==
  Cat(<< Plus(Cls(Letters \cup Digits \cup {Ord("."), Ord("_"), Ord("%"), Ord("+"), Ord("-")})),
         Lit("@"),
         Plus(Cls(Letters \cup Digits \cup {Ord("."), Ord("-")})),
         Lit("."),
         Rep(Cls(Letters), 2, -1) >>)

\* PHONE_PATTERN = r'(?:\+\d{1,2}\s?)?\(?\d{3}\)?[\s.-]?\d{3}[\s.-]?\d{4}'
PHONE_PATTERN ==
  Cat(<< Opt(Cat(<< Lit("+"), Rep(Cls(Digits), 1, 2), Opt(Cls(WhiteSpace)) >>)),
         Opt(Lit("(")),
         Rep(Cls(Digits), 3, 3),
         Opt(Lit(")")),
         Opt(Cls(WhiteSpace \cup {Ord("."), Ord("-")})),
         Rep(Cls(Digits), 3, 3),
         Opt(Cls(WhiteSpace \cup {Ord("."), Ord("-")})),
         Rep(Cls(Digits), 4, 4) >>)

\* the replacement that keeps the local part of the address
EmailReplKeepingName(m) == m

\* lambda m: m.group(0)[0] + "***@" + m.group(0).split('@')[1]
EmailRepl(m) ==
  Let({i \in 1..Len(m) : m[i] = Ord("@")},
      LAMBDA at :
        Let({i \in at : i > Min(at)},
            LAMBDA after :
              <<m[1]>> \o S(<<"*", "*", "*", "@">>)
              \o SubSeq(m, Min(at) + 1, (IF after = {} THEN Len(m) + 1 ELSE Min(after)) - 1)))

PhoneRepl(m) == S(<<"*", "*", "*", "*", "*", "*", "*", "*">>)

\* re.sub(EMAIL_PATTERN, <the lambda>, x): every non-overlapping match,
\* leftmost first, is replaced.
RECURSIVE SubEmail(_, _)
SubEmail(s, from) ==
  Let(Search(EMAIL_PATTERN, s, from),
      LAMBDA m : IF m[1] = 0 THEN SubSeq(s, from, Len(s))
                 ELSE SubSeq(s, from, m[1] - 1) \o EmailRepl(SubSeq(s, m[1], m[2] - 1))
                      \o SubEmail(s, m[2]))

\* re.sub(PHONE_PATTERN, "********", x)
RECURSIVE SubPhone(_, _)
SubPhone(s, from) ==
  Let(Search(PHONE_PATTERN, s, from),
      LAMBDA m : IF m[1] = 0 THEN SubSeq(s, from, Len(s))
                 ELSE SubSeq(s, from, m[1] - 1) \o PhoneRepl(SubSeq(s, m[1], m[2] - 1))
                      \o SubPhone(s, m[2]))

(***************************************************************************)
(* difflib.SequenceMatcher(None, a, b).ratio()                             *)
(***************************************************************************)

\* the length of the common run of a from i and b from j, inside the windows
RECURSIVE CommonLen(_, _, _, _, _, _)
CommonLen(a, b, i, j, ahi, bhi) ==
  IF i > ahi \/ j > bhi \/ a[i] # b[j] THEN 0
  ELSE 1 + CommonLen(a, b, i + 1, j + 1, ahi, bhi)

\* the order in which find_longest_match prefers one block <<i, j, k>> to another
Better(x, y) == \/ x[3] > y[3]
                \/ x[3] = y[3] /\ x[1] < y[1]
                \/ x[3] = y[3] /\ x[1] = y[1] /\ x[2] <= y[2]

\* find_longest_match: of the longest common blocks of a[alo..ahi] and
\* b[blo..bhi], the one that starts earliest in a and, of those, earliest
\* in b: <<i, j, k>>, with k = 0 when the windows share no character.
find_longest_match(a, b, alo, ahi, blo, bhi) ==
  Let({<<i, j, CommonLen(a, b, i, j, ahi, bhi)>> : i \in alo..ahi, j \in blo..bhi},
      LAMBDA blocks : IF blocks = {} THEN <<alo, blo, 0>>
                      ELSE CHOOSE x \in blocks : \A y \in blocks : Better(x, y))

\* get_matching_blocks: the matched characters, counted block by block, to
\* the left and to the right of the longest block.
RECURSIVE MatchCount(_, _, _, _, _, _)
MatchCount(a, b, alo, ahi, blo, bhi) ==
  Let(find_longest_match(a, b, alo, ahi, blo, bhi),
      LAMBDA m : IF m[3] = 0 THEN 0
                 ELSE m[3] + MatchCount(a, b, alo, m[1] - 1, blo, m[2] - 1)
                      + MatchCount(a, b, m[1] + m[3], ahi, m[2] + m[3], bhi))

\* ratio() > 0.75, where ratio() is 2.0 * matches / (len(a) + len(b)) and
\* 1.0 for two empty strings
RatioAbove75(a, b) ==
  IF Len(a) + Len(b) = 0 THEN TRUE
  ELSE 8 * MatchCount(a, b, 1, Len(a), 1, Len(b)) > 3 * (Len(a) + Len(b))


(***************************************************************************)
(* Cells, columns and frames (pandas)                                      *)
(***************************************************************************)

NaN == [t |-> "nan", n |-> 0, s |-> <<>>]
\* the number n2 / 2
Num(n2) == [t |-> "num", n |-> n2, s |-> <<>>]
Txt(s) == [t |-> "str", n |-> 0, s |-> s]
\* a timestamp; NaT is NaN
Stamp(d) == [t |-> "date", n |-> d, s |-> <<>>]

IsNumericDtype(d) == d \in {"int64", "float64"}
IsObjectDtype(d) == d = "object"
IsDatetimeDtype(d) == d = "datetime64"

\* A frame: the column names, their dtypes, the index labels of the rows
\* (the row numbers of the file, kept by every row filter) and the rows.
Frame(cols, dtype, index, rows) ==
  [cols |-> cols, dtype |-> dtype, index |-> index, rows |-> rows]

NRows(df) == Len(df.rows)
NCols(df) == Len(df.cols)

Column(df, j) == [i \in 1..NRows(df) |-> df.rows[i][j]]

\* the frame made of the columns cs[j] = [cells, dtype], under df's names
WithColumns(df, cs) ==
  Let(Elements([j \in 1..NCols(df) |->
                  Let(cs[j], LAMBDA c : [cells |-> Elements(c.cells, NRows(df)),
                                         dtype |-> c.dtype])],
               NCols(df)),
      LAMBDA made :
        Frame(df.cols, [j \in 1..NCols(df) |-> made[j].dtype], df.index,
              [i \in 1..NRows(df) |-> [j \in 1..NCols(df) |-> made[j].cells[i]]]))

\* the positions of keep (a set) among 1..n, in their order
RECURSIVE Positions(_, _, _)
Positions(keep, i, n) ==
  IF i > n THEN <<>>
  ELSE (IF i \in keep THEN <<i>> ELSE <<>>) \o Positions(keep, i + 1, n)

\* the rows of df at the positions keep, in their order, under their labels
TakeRows(df, keep) ==
  Let(Positions(keep, 1, NRows(df)),
      LAMBDA pos : Frame(df.cols, df.dtype, [k \in 1..Len(pos) |-> df.index[pos[k]]],
                         [k \in 1..Len(pos) |-> df.rows[pos[k]]]))

\* df.head(n)
HeadRows(df, n) == TakeRows(df, 1..n)

RECURSIVE Flatten(_)
Flatten(ss) == IF ss = <<>> THEN <<>> ELSE Head(ss) \o Flatten(Tail(ss))

RECURSIVE Sum(_)
Sum(ns) == IF ns = <<>> THEN 0 ELSE Head(ns) + Sum(Tail(ns))

NotNa(cells) == {i \in 1..Len(cells) : cells[i].t # "nan"}
\* Series.nunique(): the distinct values, missing cells left out
Uniques(cells) == {cells[i] : i \in NotNa(cells)}
CountOf(cells, v) == Cardinality({i \in 1..Len(cells) : cells[i] = v})

(***************************************************************************)
(* Numbers in text                                                         *)
(***************************************************************************)

RECURSIVE DigitsValue(_)
DigitsValue(s) ==
  IF s = <<>> THEN 0 ELSE 10 * DigitsValue(SubSeq(s, 1, Len(s) - 1)) + (s[Len(s)] - 48)

AllDigits(s) == s # <<>> /\ \A i \in 1..Len(s) : s[i] \in Digits

\* the digits before and after the one decimal point of a literal
NoNumber == [ok |-> FALSE, n |-> 0, int |-> FALSE]
ParseFraction(whole, frac, sign) ==
  IF AllDigits(whole) /\ AllDigits(frac) /\ frac[1] \in {Ord("0"), Ord("5")}
     /\ \A i \in 2..Len(frac) : frac[i] = Ord("0")
  THEN [ok |-> TRUE,
        n |-> sign * (2 * DigitsValue(whole) + (IF frac[1] = Ord("5") THEN 1 ELSE 0)),
        int |-> FALSE]
  ELSE NoNumber

\* the literal after its sign
ParseUnsigned(body, sign) ==
  Let({i \in 1..Len(body) : body[i] = Ord(".")},
      LAMBDA dots :
        IF dots = {}
        THEN IF AllDigits(body)
             THEN [ok |-> TRUE, n |-> sign * 2 * DigitsValue(body), int |-> TRUE]
             ELSE NoNumber
        ELSE IF Cardinality(dots) = 1
             THEN ParseFraction(SubSeq(body, 1, Min(dots) - 1),
                                SubSeq(body, Min(dots) + 1, Len(body)), sign)
             ELSE NoNumber)

\* The number a text stands for, as float() and pd.to_numeric read it:
\* [ok, n (twice the value), int (written without a decimal point)].  The
\* literals read are [+-]digits and [+-]digits.digits with a fraction of
\* .0 or .5 (the numbers a cell of this model can hold); any other text is
\* no number.
ParseNumber(text) ==
  Let(Strip(text),
      LAMBDA s : IF s # <<>> /\ s[1] \in {Ord("+"), Ord("-")}
                 THEN ParseUnsigned(Tail(s), IF s[1] = Ord("-") THEN -1 ELSE 1)
                 ELSE ParseUnsigned(s, 1))

RECURSIVE DigitsOf(_)
DigitsOf(k) == IF k < 10 THEN <<48 + k>> ELSE DigitsOf(k \div 10) \o <<48 + (k % 10)>>

\* str() of a number: an int64 prints whole, a float64 with its fraction
NumberText(n2, dtype) ==
  Let(IF n2 < 0 THEN -n2 ELSE n2,
      LAMBDA a : (IF n2 < 0 THEN <<45>> ELSE <<>>) \o DigitsOf(a \div 2)
                 \o (IF dtype = "int64" THEN <<>>
                     ELSE <<46>> \o (IF a % 2 = 1 THEN <<53>> ELSE <<48>>)))

\* the dtype pandas gives a column of numbers: int64 when every cell is a
\* whole number written without a decimal point, float64 otherwise
NumericDtype(parsed) ==
  IF \A i \in 1..Len(parsed) : parsed[i].ok /\ parsed[i].int THEN "int64" ELSE "float64"

nan_text == S(<<"n", "a", "n">>)
epoch_day == S(<<"1", "9", "7", "0", "-", "0", "1", "-", "0", "1">>)

\* str() of a timestamp, without the time of day: the day of a calendar
\* date YYYYMMDD, or the first day of the epoch and the count from it
DateText(d) ==
  IF d >= 10000000
  THEN Let(DigitsOf(d),
           LAMBDA t : SubSeq(t, 1, Len(t) - 4) \o <<45>> \o SubSeq(t, Len(t) - 3, Len(t) - 2)
                      \o <<45>> \o SubSeq(t, Len(t) - 1, Len(t)))
  ELSE epoch_day \o <<46>> \o DigitsOf(d)

\* astype(str): a missing cell reads "nan"
AsStr(cell, dtype) ==
  CASE cell.t = "str" -> cell.s
    [] cell.t = "nan" -> nan_text
    [] cell.t = "num" -> NumberText(cell.n, dtype)
    [] cell.t = "date" -> DateText(cell.n)

(***************************************************************************)
(* The functions of process_dataset on one text or one cell                *)
(***************************************************************************)

Unknown == S(<<"U", "n", "k", "n", "o", "w", "n">>)
Piece == S(<<"P", "i", "e", "c", "e">>)
Pc == S(<<"P", "c">>)
NullWords == {S(<<"N", "a", "n">>), S(<<"N", "o", "n", "e">>), S(<<"N", "a">>),
              S(<<"N", "/", "A">>)}

\* line 256: .replace({'Nan': 'Unknown', 'None': 'Unknown', 'Na': 'Unknown',
\*                     'Pc': 'Piece', 'N/A': 'Unknown'}) on whole cells
ReplaceNullWords(s) ==
  IF s \in NullWords THEN Unknown ELSE IF s = Pc THEN Piece ELSE s

\* lines 255-256 on the text of one cell
NormalizeString(s) == ReplaceNullWords(Title(Strip(s)))

\* pd.to_numeric(x, errors='coerce') on one cell: the parsed number
\* [ok, n, int]
ToNumeric(cell) ==
  CASE cell.t = "str" -> ParseNumber(cell.s)
    [] cell.t = "num" -> [ok |-> TRUE, n |-> cell.n, int |-> FALSE]
    [] OTHER -> [ok |-> FALSE, n |-> 0, int |-> FALSE]

\* re.sub(r'[$,...]', '', val_str): the currency signs and the comma
CurrencySigns == {Ord("$"), Ord(",")}

\* lines 95-102: a number (x 1000 for a 'k'), NaN, or the cleaned text
clean_currency_value(val) ==
  IF val.t = "nan" THEN NaN
  ELSE Let(RemoveChars(Strip(Lower(AsStr(val, "object"))), CurrencySigns),
           LAMBDA val_str :
             IF Ord("k") \in {val_str[i] : i \in 1..Len(val_str)}
             THEN Let(ParseNumber(RemoveChars(val_str, {Ord("k")})),
                      LAMBDA f : IF f.ok THEN Num(f.n * 1000) ELSE NaN)
             ELSE Txt(val_str))

\* lines 262-263 on one cell: pd.to_numeric of the cleaned value
CleanedNumber(cell) == ToNumeric(clean_currency_value(cell))

\* line 86: SequenceMatcher(None, val1.lower(), val2.lower()).ratio() > 0.75
SimilarStrings(val1, val2) == RatioAbove75(Lower(val1), Lower(val2))

date_word == S(<<"d", "a", "t", "e">>)
time_word == S(<<"t", "i", "m", "e">>)

\* line 272: 'date' in col.lower() or 'time' in col.lower()
IsDateName(col) ==
  Contains(Lower(col), date_word) \/ Contains(Lower(col), time_word)

\* a text of the form YYYY-MM-DD with a month and a day that exist
IsIsoDate(s) ==
  /\ Len(s) = 10
  /\ \A i \in {1, 2, 3, 4, 6, 7, 9, 10} : s[i] \in Digits
  /\ s[5] = Ord("-") /\ s[8] = Ord("-")
  /\ DigitsValue(SubSeq(s, 6, 7)) \in 1..12
  /\ DigitsValue(SubSeq(s, 9, 10)) \in 1..28

\* pd.to_datetime(x, errors='coerce') on one cell.  An ISO date is parsed by
\* the first attempt of the cascade; a number is a count from the epoch; the
\* other texts of this model ("Mango", "Unknown", ...) are dates in no
\* format of the cascade and end as NaT.
ParseDate(cell) ==
  CASE cell.t = "str" ->
         IF IsIsoDate(cell.s)
         THEN Stamp(10000 * DigitsValue(SubSeq(cell.s, 1, 4))
                    + 100 * DigitsValue(SubSeq(cell.s, 6, 7))
                    + DigitsValue(SubSeq(cell.s, 9, 10)))
         ELSE NaN
    [] cell.t = "num" -> Stamp(cell.n)
    [] cell.t = "date" -> cell
    [] OTHER -> NaN

\* lines 109-111: the cell after the substitution, and whether the
\* pattern matched it
MaskEmail(cell) ==
  IF ReContains(EMAIL_PATTERN, AsStr(cell, "object"))
  THEN [cell |-> Txt(SubEmail(AsStr(cell, "object"), 1)), count |-> 1]
  ELSE [cell |-> cell, count |-> 0]

\* lines 113-116
MaskPhone(cell) ==
  IF ReContains(PHONE_PATTERN, AsStr(cell, "object"))
  THEN [cell |-> Txt(SubPhone(AsStr(cell, "object"), 1)), count |-> 1]
  ELSE [cell |-> cell, count |-> 0]

\* lines 109-116 on one cell of an object column: the cell after the two
\* substitutions, and how many of the two patterns it matched
MaskCell(cell) ==
  Let(MaskEmail(cell),
      LAMBDA e : Let(MaskPhone(e.cell),
                     LAMBDA p : [cell |-> p.cell, count |-> e.count + p.count]))

\* line 123: str(col).strip().replace(' ', '_').replace('-', '_').replace('.', '')
SqlName(col) ==
  Let(Strip(col),
      LAMBDA s : RemoveChars([i \in 1..Len(s) |->
                                IF s[i] \in {Ord(" "), Ord("-")} THEN Ord("_") ELSE s[i]],
                             {Ord(".")}))

\* v.replace("'", "''")
RECURSIVE DoubleQuotes(_)
DoubleQuotes(s) ==
  IF s = <<>> THEN <<>>
  ELSE (IF Head(s) = 39 THEN <<39, 39>> ELSE <<Head(s)>>) \o DoubleQuotes(Tail(s))

(***************************************************************************)
(* The files of the model                                                  *)
(***************************************************************************)

\* the most data lines of an uploaded file
MaxRows == 4
\* the most data lines of a workbook, and of a file uploaded under a name
\* that does not fit its content
MaxSheetRows == 1

csv_name == S(<<"d", "a", "t", "a", ".", "c", "s", "v">>)
xlsx_name == S(<<"d", "a", "t", "a", ".", "x", "l", "s", "x">>)
txt_name == S(<<"d", "a", "t", "a", ".", "t", "x", "t">>)
FileNames == {csv_name, xlsx_name, txt_name}
dot_csv == S(<<".", "c", "s", "v">>)
dot_xlsx == S(<<".", "x", "l", "s", "x">>)

mango == S(<<"m", "a", "n", "g", "o">>)
Mngo == S(<<"M", "n", "g", "o">>)
MANGO == S(<<"M", "A", "N", "G", "O">>)
Mango == S(<<"M", "a", "n", "g", "o">>)
Mano == S(<<"M", "a", "n", "o">>)
john == S(<<"j", "o", "h", "n", "@", "e", "x", "a", "m", "p", "l", "e", ".", "c", "o", "m">>)
jane == S(<<"j", "a", "n", "e", "@", "e", "x", "a", "m", "p", "l", "e", ".", "c", "o", "m">>)
phone == S(<<"1", "2", "3", "-", "4", "5", "6", "-", "7", "8", "9", "0">>)
day2 == S(<<"2", "0", "2", "0", "-", "0", "1", "-", "0", "2">>)
day3 == S(<<"2", "0", "2", "0", "-", "0", "1", "-", "0", "3">>)

Age == S(<<"A", "g", "e">>)
City == S(<<"C", "i", "t", "y">>)
Contact == S(<<"C", "o", "n", "t", "a", "c", "t">>)
Score == S(<<"S", "c", "o", "r", "e">>)
Level == S(<<"L", "e", "v", "e", "l">>)
Date == S(<<"D", "a", "t", "e">>)
Price == S(<<"P", "r", "i", "c", "e">>)
Time == S(<<"T", "i", "m", "e">>)

\* The tables a file may hold: for each column its name and the fields a
\* line may have in it.
Schemas ==
  << << [name |-> Age, fields |-> {<<>>, S(<<"1">>), S(<<"4">>)}] >>,
     << [name |-> City, fields |-> {mango, Mngo, MANGO}] >>,
     << [name |-> Contact, fields |-> {john, jane, phone}] >>,
     << [name |-> Score, fields |-> {S(<<"1">>), S(<<"3">>)}],
        [name |-> Level, fields |-> {S(<<"2">>), S(<<"6">>)}] >>,
     << [name |-> Age, fields |-> {<<>>, S(<<"2">>)}],
        [name |-> City, fields |-> {mango}] >>,
     << [name |-> Date, fields |-> {day2, day3}] >>,
     << [name |-> Price, fields |-> {S(<<"1", "k">>), S(<<"5">>)}] >>,
     << [name |-> Time, fields |-> {S(<<"1">>), S(<<"2">>)}] >> >>

AllFields == UNION {UNION {schema[j].fields : j \in 1..Len(schema)} :
                      schema \in {Schemas[k] : k \in 1..Len(Schemas)}}

ColumnNames == UNION {{schema[j].name : j \in 1..Len(schema)} :
                        schema \in {Schemas[k] : k \in 1..Len(Schemas)}}

LinesOf(schema) ==
  {line \in [1..Len(schema) -> AllFields] : \A j \in 1..Len(schema) : line[j] \in schema[j].fields}

\* The bytes of a file are its kind ("csv": delimited text, "xlsx": a
\* workbook, "junk": neither), the header and the data lines, each line a
\* tuple of fields as written in the file (<<>> is an empty field).
FileContent(kind, header, lines) == [kind |-> kind, header |-> header, lines |-> lines]

\* the files of kind `kind` with at most `most` data lines
Tables(kind, most) ==
  UNION {UNION {{FileContent(kind, [j \in 1..Len(Schemas[k]) |-> Schemas[k][j].name], lines) :
                   lines \in [1..R -> LinesOf(Schemas[k])]} : R \in 0..most} :
           k \in 1..Len(Schemas)}

Junk == FileContent("junk", <<>>, <<>>)

\* the uploads of the model: <<filename, file_content>>
Uploads ==
  ({csv_name} \X Tables("csv", MaxRows))
  \cup (FileNames \X (Tables("csv", MaxSheetRows) \cup Tables("xlsx", MaxSheetRows) \cup {Junk}))

(***************************************************************************)
(* The text functions, tabulated on the texts of the model                 *)
(***************************************************************************)

RawTexts == AllFields \cup {nan_text}
NormalTexts == Image(NormalizeString, RawTexts) \cup {Mango, Mngo, Mano}
KnownTexts == RawTexts \cup NormalTexts
KnownCells == Image(Txt, KnownTexts)

NumberTable == Tabulate(ParseNumber, KnownTexts)
NumberOf(s) == Lookup(NumberTable, s, ParseNumber)

NormalTable == Tabulate(NormalizeString, KnownTexts)
NormalOf(s) == Lookup(NormalTable, s, NormalizeString)

NumericTable == Tabulate(ToNumeric, KnownCells)
NumericOf(cell) == Lookup(NumericTable, cell, ToNumeric)

CleanedTable == Tabulate(CleanedNumber, KnownCells)
CleanedOf(cell) == Lookup(CleanedTable, cell, CleanedNumber)

SimilarRow(val1) == Tabulate(LAMBDA val2 : SimilarStrings(val1, val2), NormalTexts)
SimilarTable == Tabulate(SimilarRow, NormalTexts)
SimilarOf(val1, val2) ==
  Lookup(Lookup(SimilarTable, val1, SimilarRow), val2, LAMBDA v : SimilarStrings(val1, v))

DateTable == Tabulate(ParseDate, KnownCells)
DateOf(cell) == Lookup(DateTable, cell, ParseDate)

MaskTable == Tabulate(MaskCell, KnownCells)
MaskOf(cell) == Lookup(MaskTable, cell, MaskCell)

DateNameTable == Tabulate(IsDateName, ColumnNames)
DateNameOf(col) == Lookup(DateNameTable, col, IsDateName)

SqlNameTable == Tabulate(SqlName, ColumnNames)
SqlNameOf(col) == Lookup(SqlNameTable, col, SqlName)

QuotedTable == Tabulate(DoubleQuotes, KnownTexts)
QuotedOf(s) == Lookup(QuotedTable, s, DoubleQuotes)

(***************************************************************************)
(* Ingestion (process_dataset, lines 238-246)                              *)
(***************************************************************************)

EndsWith(s, suffix) ==
  Len(s) >= Len(suffix) /\ SubSeq(s, Len(s) - Len(suffix) + 1, Len(s)) = suffix

\* the type inference of pd.read_csv / pd.read_excel on one column: a
\* column whose fields are all empty or numbers is numeric (an empty field
\* is NaN and makes it float64), any other column is object; a frame with no
\* row has object columns only
ReadColumn(fields) ==
  Let(Elements([i \in 1..Len(fields) |-> NumberOf(fields[i])], Len(fields)),
      LAMBDA parsed :
        IF Len(fields) > 0 /\ \A i \in 1..Len(fields) : fields[i] = <<>> \/ parsed[i].ok
        THEN [cells |-> [i \in 1..Len(fields) |->
                           IF fields[i] = <<>> THEN NaN ELSE Num(parsed[i].n)],
              dtype |-> NumericDtype(parsed)]
        ELSE [cells |-> [i \in 1..Len(fields) |->
                           IF fields[i] = <<>> THEN NaN ELSE Txt(fields[i])],
              dtype |-> "object"])

\* the frame a reader makes of the content of a file of its kind
ReadTable(content) ==
  WithColumns(Frame(content.header, [j \in 1..Len(content.header) |-> "object"],
                    [i \in 1..Len(content.lines) |-> i],
                    [i \in 1..Len(content.lines) |-> <<>>]),
              [j \in 1..Len(content.header) |->
                 ReadColumn([i \in 1..Len(content.lines) |-> content.lines[i][j]])])

\* line 246: the exception process_dataset raises
ValueError(cause) == [ok |-> FALSE, error |-> "ValueError",
                      message |-> <<"File could not be read: ", cause>>]

\* lines 238-246: [ok, df] or the ValueError raised.  A reader given bytes
\* of another kind raises.
ReadFile(file_content, filename) ==
  IF EndsWith(filename, dot_csv)
  THEN IF file_content.kind = "csv" THEN [ok |-> TRUE, df |-> ReadTable(file_content)]
       ELSE ValueError("Error tokenizing data")
  ELSE IF EndsWith(filename, dot_xlsx)
  THEN IF file_content.kind = "xlsx" THEN [ok |-> TRUE, df |-> ReadTable(file_content)]
       ELSE ValueError("File is not a zip file")
  ELSE ValueError("Unsupported file type")

(***************************************************************************)
(* Text normalisation (lines 253-256)                                      *)
(***************************************************************************)

NormalizeText(df) ==
  WithColumns(df,
    [j \in 1..NCols(df) |->
       IF IsObjectDtype(df.dtype[j])
       THEN [cells |-> [i \in 1..NRows(df) |-> Txt(NormalOf(AsStr(df.rows[i][j], "object")))],
             dtype |-> "object"]
       ELSE [cells |-> Column(df, j), dtype |-> df.dtype[j]]])

(***************************************************************************)
(* Numeric coercion (lines 258-267)                                        *)
(***************************************************************************)

\* lines 259-267 on one object column: [cells, dtype, logs]
Parsed(p) == Cardinality({i \in 1..Len(p) : p[i].ok})
Below40(p) == Len(p) > 0 /\ 5 * Parsed(p) < 2 * Len(p)

\* the comparison of line 267 as "not below 40%"
AtLeast40(p) == 5 * Parsed(p) >= 2 * Len(p)

Above40(p) == Len(p) > 0 /\ 5 * Parsed(p) > 2 * Len(p)

\* line 267, and the log of line 266: [cells, dtype, logs]
Assigned(name, cells, temp_col, smart) ==
  IF Above40(temp_col)
  THEN [cells |-> [i \in 1..Len(cells) |->
                     IF temp_col[i].ok THEN Num(temp_col[i].n) ELSE NaN],
        dtype |-> NumericDtype(temp_col),
        logs |-> IF smart THEN <<[what |-> "Smart-Parsed", col |-> name,
                                  a |-> <<>>, b |-> <<>>]>> ELSE <<>>]
  ELSE [cells |-> cells, dtype |-> "object", logs |-> <<>>]

\* lines 262-266
SmartParsed(name, cells, temp_col) ==
  Let(Elements([i \in 1..Len(cells) |-> CleanedOf(cells[i])], Len(cells)),
      LAMBDA temp_col_cleaned :
        IF Above40(temp_col_cleaned) THEN Assigned(name, cells, temp_col_cleaned, TRUE)
        ELSE Assigned(name, cells, temp_col, FALSE))

\* lines 259-267 on one object column: [cells, dtype, logs]
CoerceColumn(name, cells) ==
  Let(Elements([i \in 1..Len(cells) |-> NumericOf(cells[i])], Len(cells)),
      LAMBDA temp_col :
        IF Below40(temp_col) THEN SmartParsed(name, cells, temp_col)
        ELSE Assigned(name, cells, temp_col, FALSE))

CoerceColumns(df) ==
  [j \in 1..NCols(df) |->
     IF IsObjectDtype(df.dtype[j]) THEN CoerceColumn(df.cols[j], Column(df, j))
     ELSE [cells |-> Column(df, j), dtype |-> df.dtype[j], logs |-> <<>>]]

CoerceNumeric(df) == WithColumns(df, CoerceColumns(df))
CoerceLogs(df) == Flatten([j \in 1..NCols(df) |-> CoerceColumns(df)[j].logs])

(***************************************************************************)
(* smart_text_correction (lines 75-93)                                     *)
(***************************************************************************)

\* value_counts().index.tolist(): the distinct values, the most frequent
\* first, equally frequent ones in the order of their first occurrence
FirstAt(cells, v) ==
  CHOOSE i \in 1..Len(cells) : cells[i] = v /\ \A k \in 1..(i - 1) : cells[k] # v

Before(cells, v, w) ==
  \/ CountOf(cells, v) > CountOf(cells, w)
  \/ CountOf(cells, v) = CountOf(cells, w) /\ FirstAt(cells, v) < FirstAt(cells, w)

ValueCounts(cells) ==
  Let(Uniques(cells),
      LAMBDA U :
        Elements([k \in 1..Cardinality(U) |->
                    CHOOSE v \in U : 1 + Cardinality({w \in U : Before(cells, w, v)}) = k],
                 Cardinality(U)))

\* line 78: the column is skipped when nunique() > len(df) * 0.9
HighCardinality(cells) == 10 * Cardinality(Uniques(cells)) > 9 * Len(cells)

\* lines 84-89: val1 is to be corrected to val2
Corrects(cells, val1, val2) ==
  /\ val1.t = "str" /\ val2.t = "str"
  /\ SimilarOf(val1.s, val2.s)
  /\ CountOf(cells, val2) > CountOf(cells, val1) * 2

\* lines 81-91: the corrections the double loop records, in its order, as
\* pairs <<val1, val2>>; a later pair for the same val1 overwrites an earlier
Recorded(cells) ==
  IF HighCardinality(cells) THEN <<>>
  ELSE Let(ValueCounts(cells),
           LAMBDA all_vals :
             Flatten([i \in 1..Len(all_vals) |->
               Flatten([j \in 1..Len(all_vals) |->
                 IF i # j /\ Corrects(cells, all_vals[i], all_vals[j])
                 THEN <<<<all_vals[i], all_vals[j]>>>> ELSE <<>>])]))

\* the dict corrections: the last value recorded for each key
Corrections(cells) ==
  Let(Recorded(cells),
      LAMBDA rec :
        [v \in {rec[k][1] : k \in 1..Len(rec)} |->
           rec[CHOOSE k \in 1..Len(rec) :
                 rec[k][1] = v /\ \A m \in (k + 1)..Len(rec) : rec[m][1] # v][2]])

\* line 92: Series.replace(corrections) replaces every cell that is a key by
\* its value, all keys at once (a replaced cell is not replaced again)
ReplaceAll(cells, corrections) ==
  [i \in 1..Len(cells) |->
     IF cells[i] \in DOMAIN corrections THEN corrections[cells[i]] ELSE cells[i]]

CorrectColumn(cells) ==
  Let(Corrections(cells), LAMBDA corrections : ReplaceAll(cells, corrections))

\* line 91: one log entry for each recorded pair
CorrectionLogs(name, cells) ==
  Let(Recorded(cells),
      LAMBDA rec :
        [k \in 1..Len(rec) |->
           [what |-> "Auto-Corrected", col |-> name, a |-> rec[k][1].s, b |-> rec[k][2].s]])

smart_text_correction(df) ==
  WithColumns(df,
    [j \in 1..NCols(df) |->
       IF IsObjectDtype(df.dtype[j])
       THEN [cells |-> CorrectColumn(Column(df, j)), dtype |-> "object"]
       ELSE [cells |-> Column(df, j), dtype |-> df.dtype[j]]])

TextCorrectionLogs(df) ==
  Flatten([j \in 1..NCols(df) |->
             IF IsObjectDtype(df.dtype[j]) THEN CorrectionLogs(df.cols[j], Column(df, j))
             ELSE <<>>])

(***************************************************************************)
(* Dates and imputation (lines 271-279), smart_parse_dates (60-72)         *)
(***************************************************************************)

smart_parse_dates(cells) == [i \in 1..Len(cells) |-> DateOf(cells[i])]

\* Series.median(): the middle of the sorted non-missing values, the mean
\* of the two middle ones for an even count; NaN when there is none
SortedAt(cells, idx, p) ==
  cells[CHOOSE i \in idx :
          1 + Cardinality({m \in idx : cells[m].n < cells[i].n
                                       \/ (cells[m].n = cells[i].n /\ m < i)}) = p].n

Median(cells) ==
  Let(NotNa(cells),
      LAMBDA idx :
        IF idx = {} THEN NaN
        ELSE IF Cardinality(idx) % 2 = 1 THEN Num(SortedAt(cells, idx, (Cardinality(idx) + 1) \div 2))
        ELSE Num((SortedAt(cells, idx, Cardinality(idx) \div 2)
                  + SortedAt(cells, idx, Cardinality(idx) \div 2 + 1)) \div 2))

\* fillna with the median of all cells, a missing cell counted as 0
FillMedianOfAll(cells) ==
  Let(Median([i \in 1..Len(cells) |-> IF cells[i].t = "nan" THEN Num(0) ELSE cells[i]]),
      LAMBDA median :
        [i \in 1..Len(cells) |-> IF cells[i].t # "nan" THEN cells[i] ELSE median])

\* lines 275-279
FillMedian(cells) ==
  IF NotNa(cells) # 1..Len(cells)
  THEN Let(Median(cells),
           LAMBDA median :
             [i \in 1..Len(cells) |->
                IF cells[i].t # "nan" THEN cells[i]
                ELSE IF median.t = "nan" THEN Num(0) ELSE median])
  ELSE cells

\* the body of the loop of line 271 on one column
ParseAndImputeColumn(name, cells, dtype) ==
  Let(IF DateNameOf(name)
      THEN [cells |-> smart_parse_dates(cells), dtype |-> "datetime64"]
      ELSE [cells |-> cells, dtype |-> dtype],
      LAMBDA parsed :
        IF IsNumericDtype(parsed.dtype)
        THEN [cells |-> FillMedian(parsed.cells), dtype |-> parsed.dtype]
        ELSE parsed)

ParseDatesAndImpute(df) ==
  WithColumns(df, [j \in 1..NCols(df) |->
                     ParseAndImputeColumn(df.cols[j], Column(df, j), df.dtype[j])])

DateLogs(df) ==
  Flatten([j \in 1..NCols(df) |->
             IF DateNameOf(df.cols[j])
             THEN <<[what |-> "Formatted to DateTime", col |-> df.cols[j],
                     a |-> <<>>, b |-> <<>>]>>
             ELSE <<>>])

(***************************************************************************)
(* Deduplication (lines 281-283) and PII masking (lines 104-117)           *)
(***************************************************************************)

\* drop_duplicates keeping the last of the equal rows
drop_duplicates_keep_last(df) ==
  TakeRows(df, {i \in 1..NRows(df) : \A k \in (i + 1)..NRows(df) : df.rows[k] # df.rows[i]})

\* DataFrame.drop_duplicates(): a row equal to an earlier row is dropped
drop_duplicates(df) ==
  TakeRows(df, {i \in 1..NRows(df) : \A k \in 1..(i - 1) : df.rows[k] # df.rows[i]})

\* the cells of the object columns after the two substitutions, each with
\* the number of patterns it matched
MaskedCells(df) ==
  Elements([i \in 1..NRows(df) |->
              Elements([j \in 1..NCols(df) |->
                          IF IsObjectDtype(df.dtype[j]) THEN MaskOf(df.rows[i][j])
                          ELSE [cell |-> df.rows[i][j], count |-> 0]], NCols(df))],
           NRows(df))

MaskedFrame(df, masked) ==
  Frame(df.cols, df.dtype, df.index,
        [i \in 1..NRows(df) |-> [j \in 1..NCols(df) |-> masked[i][j].cell]])

PiiCount(df, masked) ==
  Sum(Flatten([i \in 1..NRows(df) |-> [j \in 1..NCols(df) |-> masked[i][j].count]]))

\* detect_and_mask_pii: (df_masked, pii_count)
detect_and_mask_pii(df) ==
  Let(MaskedCells(df),
      LAMBDA masked : [df |-> MaskedFrame(df, masked), pii_count |-> PiiCount(df, masked)])

\* line 288
MaskLogs(pii_count) ==
  IF pii_count > 0
  THEN <<[what |-> "Masked PII items", col |-> <<>>, a |-> <<>>, b |-> <<>>]>>
  ELSE <<>>

(***************************************************************************)
(* Anomaly detection (lines 290-308)                                       *)
(***************************************************************************)

\* line 291: the columns the detector is fitted on
numeric_cols_model(df) == {j \in 1..NCols(df) : IsNumericDtype(df.dtype[j])}

IndexLabels(df) == {df.index[i] : i \in 1..NRows(df)}

\* IsolationForest.fit_predict is not computed: the rows it predicts -1 are
\* any set of rows.  The detector is fitted only when line 298 lets it.
Verdicts(df) ==
  IF Cardinality(numeric_cols_model(df)) > 0 THEN SUBSET IndexLabels(df) ELSE {{}}

\* DetectAnomalies counting the flagged rows without removing them
DetectAnomaliesKeepingRows(df, flagged) ==
  [df_clean |-> df,
   anomaly_count |-> Cardinality({i \in 1..NRows(df) : df.index[i] \in flagged})]

\* lines 297-308 with the rows of labels `flagged` predicted -1:
\* [df_clean, anomaly_count]
DetectAnomalies(df, flagged) ==
  IF Cardinality(numeric_cols_model(df)) > 0
  THEN [df_clean |-> TakeRows(df, {i \in 1..NRows(df) : df.index[i] \notin flagged}),
        anomaly_count |-> Cardinality({i \in 1..NRows(df) : df.index[i] \in flagged})]
  ELSE [df_clean |-> df, anomaly_count |-> 0]

(***************************************************************************)
(* Quality score (lines 310-311, 332) and summary (lines 146-153)          *)
(***************************************************************************)

\* n / d rounded to the nearest integer, a tie to the even one (round())
RoundHalfEven(n, d) ==
  LET q == n \div d
      r == n % d
  IN  IF 2 * r < d THEN q
      ELSE IF 2 * r > d THEN q + 1
      ELSE IF q % 2 = 0 THEN q ELSE q + 1

\* quality_score as the percentage of the rows lost
quality_score_lost(rows_original, rows_clean) ==
  IF rows_original > 0
  THEN [num |-> (rows_original - rows_clean) * 100, den |-> rows_original]
  ELSE [num |-> 0, den |-> 1]

\* lines 310-311: quality_score as the fraction [num, den]
quality_score(rows_original, rows_clean) ==
  IF rows_original > 0
  THEN LET lost == (rows_original - rows_clean) * 100
           kept == 100 * rows_original - lost
       IN  [num |-> IF kept > 0 THEN kept ELSE 0, den |-> rows_original]
  ELSE [num |-> 0, den |-> 1]

\* line 332: round(quality_score, 2), in hundredths
RoundedScore(q) == RoundHalfEven(100 * q.num, q.den)

\* lines 146-153: the tier of the score and whether the PII count is told
generate_smart_summary(original, dups, anom, pii, score, mask) ==
  [processed |-> original,
   tier |-> IF score.num > 90 * score.den THEN "excellent"
            ELSE IF score.num > 70 * score.den THEN "fair" ELSE "critical",
   removed |-> <<dups, anom>>,
   pii |-> IF mask /\ pii > 0 THEN pii ELSE 0]

(***************************************************************************)
(* Artifacts: SQL (lines 119-144), column statistics (38-57),              *)
(* correlation matrix (27-35)                                              *)
(***************************************************************************)

\* line 130: df.head(50)
SqlRowCap == 50
\* line 49: value_counts().head(5)
TopValuesCap == 5
\* line 333: logs[:15]
LogCap == 15

NULL == S(<<"N", "U", "L", "L">>)
NotAvailable == S(<<"N", "/", "A">>)

\* lines 124-127
SqlType(dtype) ==
  CASE dtype = "int64" -> "INT"
    [] dtype = "float64" -> "FLOAT"
    [] dtype = "datetime64" -> "TIMESTAMP"
    [] OTHER -> "TEXT"

\* the dtype of the values iterrows() hands out for column j: the rows of
\* a frame of numbers only are Series of one dtype, float64 if any column is
RowDtype(df, j) ==
  IF /\ \A k \in 1..NCols(df) : IsNumericDtype(df.dtype[k])
     /\ \E k \in 1..NCols(df) : df.dtype[k] = "float64"
  THEN "float64"
  ELSE df.dtype[j]

\* lines 132-142: the text of one value
SqlValue(v, dtype) ==
  CASE v.t = "nan" -> NULL
    [] v.t = "str" -> <<39>> \o QuotedOf(v.s) \o <<39>>
    [] v.t = "date" -> <<39>> \o AsStr(v, dtype) \o <<39>>
    [] v.t = "num" -> NumberText(v.n, dtype)

\* generate_sql_log without the cap of line 130
generate_sql_log_uncapped(df) ==
  [create |-> [j \in 1..NCols(df) |->
                 [name |-> SqlNameOf(df.cols[j]), type |-> SqlType(df.dtype[j])]],
   inserts |-> [i \in 1..NRows(df) |->
                  [j \in 1..Len(df.rows[i]) |-> SqlValue(df.rows[i][j], RowDtype(df, j))]]]

\* generate_sql_log: the column definitions of the CREATE TABLE statement
\* and, after it, the INSERT statements, each the tuple of its values
generate_sql_log(df) ==
  Let(HeadRows(df, SqlRowCap),
      LAMBDA top :
        [create |-> [j \in 1..NCols(df) |->
                       [name |-> SqlNameOf(df.cols[j]), type |-> SqlType(df.dtype[j])]],
         inserts |-> [i \in 1..NRows(top) |->
                        [j \in 1..Len(top.rows[i]) |->
                           SqlValue(top.rows[i][j], RowDtype(df, j))]]])

\* lines 41-43
StatType(dtype) ==
  IF IsNumericDtype(dtype) THEN "Numeric"
  ELSE IF IsDatetimeDtype(dtype) THEN "Date" ELSE "Text"

\* lines 40-55 on one column
ColumnStats(name, cells, dtype) ==
  Let(ValueCounts(cells),
      LAMBDA counts :
        Let(NotNa(cells),
            LAMBDA present :
              [name |-> name,
               type |-> StatType(dtype),
               missing |-> Len(cells) - Cardinality(present),
               unique |-> Len(counts),
               sample |-> IF present # {} THEN AsStr(cells[Min(present)], dtype)
                          ELSE NotAvailable,
               top_values |-> [k \in 1..Min({Len(counts), TopValuesCap}) |->
                                 <<AsStr(counts[k], dtype), CountOf(cells, counts[k])>>]]))

\* get_column_stats: one profile for each column of df
get_column_stats(df) ==
  [j \in 1..NCols(df) |-> ColumnStats(df.cols[j], Column(df, j), df.dtype[j])]

RECURSIVE Gcd(_, _)
Gcd(a, b) == IF b = 0 THEN a ELSE Gcd(b, a % b)

RECURSIVE GcdOf(_)
GcdOf(ns) == IF ns = <<>> THEN 0 ELSE Gcd(Head(ns), GcdOf(Tail(ns)))

\* the numbers ns moved to start at 0 and divided by their common divisor:
\* Pearson's r of two columns is that of the columns so reduced
Reduced(ns) ==
  IF ns = <<>> THEN <<>>
  ELSE Let(Elements([k \in 1..Len(ns) |-> ns[k] - Min({ns[i] : i \in 1..Len(ns)})], Len(ns)),
           LAMBDA moved :
             Let(GcdOf(moved),
                 LAMBDA g : [k \in 1..Len(ns) |-> IF g = 0 THEN 0 ELSE moved[k] \div g]))

\* a < b * sqrt(d) for integers a, b and d >= 0
LessThanRoot(a, b, d) ==
  IF a < 0 THEN (b >= 0 \/ a * a > b * b * d)
  ELSE (b > 0 /\ a * a < b * b * d)

\* n times the covariance of xs and ys, and the product of n times their
\* variances
Dot(xs, ys) == Sum([k \in 1..Len(xs) |-> xs[k] * ys[k]])

Moments(xs, ys) ==
  [cov |-> Len(xs) * Dot(xs, ys) - Sum(xs) * Sum(ys),
   d |-> (Len(xs) * Dot(xs, xs) - Sum(xs) * Sum(xs))
         * (Len(xs) * Dot(ys, ys) - Sum(ys) * Sum(ys))]

\* DataFrame.corr().round(2) for two columns: Pearson's r over the rows where
\* both are present, in hundredths; NaN when a column does not vary there
\* the hundredths h that round 100 * cov / sqrt(d):
\* (2h - 1) * sqrt(d) <= 200 * cov <= (2h + 1) * sqrt(d)
Hundredths(m) ==
  {h \in -100..100 : /\ ~LessThanRoot(200 * m.cov, 2 * h - 1, m.d)
                     /\ ~LessThanRoot(-200 * m.cov, -(2 * h + 1), m.d)}

Pearson(xs, ys) ==
  Let(Positions(NotNa(xs) \cap NotNa(ys), 1, Len(xs)),
      LAMBDA sel :
        Let(Moments(Elements(Reduced([k \in 1..Len(sel) |-> xs[sel[k]].n]), Len(sel)),
                    Elements(Reduced([k \in 1..Len(sel) |-> ys[sel[k]].n]), Len(sel))),
            LAMBDA m :
              IF m.d = 0 THEN [nan |-> TRUE, value |-> 0]
              ELSE Let(Hundredths(m),
                       LAMBDA near :
                         [nan |-> FALSE,
                          value |-> IF Cardinality(near) = 1 THEN CHOOSE h \in near : TRUE
                                    ELSE CHOOSE h \in near : h % 2 = 0])))

\* get_correlation_matrix with each pair of columns listed once
get_correlation_matrix_upper(df) ==
  Let(Positions({j \in 1..NCols(df) : IsNumericDtype(df.dtype[j])}, 1, NCols(df)),
      LAMBDA numeric :
        IF Len(numeric) < 2 THEN <<>>
        ELSE Flatten([i \in 1..Len(numeric) |->
               [j \in 1..(Len(numeric) - i + 1) |->
                  Let(Pearson(Column(df, numeric[i]), Column(df, numeric[i + j - 1])),
                      LAMBDA r : [x |-> df.cols[numeric[i]], y |-> df.cols[numeric[i + j - 1]],
                                  nan |-> r.nan, value |-> r.value])]]))

\* get_correlation_matrix: nothing for fewer than two numeric columns, else
\* one triple for every ordered pair of them, row by row
get_correlation_matrix(df) ==
  Let(Positions({j \in 1..NCols(df) : IsNumericDtype(df.dtype[j])}, 1, NCols(df)),
      LAMBDA numeric :
        IF Len(numeric) < 2 THEN <<>>
        ELSE Flatten([i \in 1..Len(numeric) |->
               [j \in 1..Len(numeric) |->
                  Let(Pearson(Column(df, numeric[i]), Column(df, numeric[j])),
                      LAMBDA r : [x |-> df.cols[numeric[i]], y |-> df.cols[numeric[j]],
                                  nan |-> r.nan, value |-> r.value])]]))

\* line 323: the names of the numeric columns, in their order
NumericColumns(df) ==
  Let(Positions(numeric_cols_model(df), 1, NCols(df)),
      LAMBDA numeric : [k \in 1..Len(numeric) |-> df.cols[numeric[k]]])

\* lines 310-339: the insights of a run
Insights(df_clean, rows_original, duplicates_removed, anomaly_count, pii_count, logs, mask) ==
  Let(quality_score(rows_original, NRows(df_clean)),
      LAMBDA score :
        [rows_original |-> rows_original,
         rows_cleaned |-> NRows(df_clean),
         duplicates_removed |-> duplicates_removed,
         anomalies_detected |-> anomaly_count,
         pii_masked |-> pii_count,
         quality_score |-> RoundedScore(score),
         logs |-> SubSeq(logs, 1, IF Len(logs) < LogCap THEN Len(logs) ELSE LogCap),
         numeric_columns |-> NumericColumns(df_clean),
         summary |-> generate_smart_summary(rows_original, duplicates_removed,
                                            anomaly_count, pii_count, score, mask),
         generated_sql |-> generate_sql_log(df_clean),
         column_stats |-> get_column_stats(df_clean),
         correlation_matrix |-> get_correlation_matrix(df_clean)])

(***************************************************************************)
(* process_dataset as a whole (lines 238-341)                              *)
(***************************************************************************)

\* lines 290-341 with the detector's verdict `flagged`: what process_dataset
\* returns
Returned(df, rows_original, duplicates_removed, pii_count, logs, mask, flagged) ==
  Let(DetectAnomalies(df, flagged),
      LAMBDA d :
        [ok |-> TRUE,
         df_clean |-> d.df_clean,
         insights |-> Insights(d.df_clean, rows_original, duplicates_removed,
                               d.anomaly_count, pii_count, logs, mask)])

\* lines 248-288: the frame, the counters and the logs before anomaly
\* detection
Prepared(df0, mask) ==
  LET normal == {NormalizeText(d) : d \in {df0}}
      coerced == {[df |-> CoerceNumeric(d), logs |-> CoerceLogs(d)] : d \in normal}
      fixed == {[df |-> smart_text_correction(s.df),
                 logs |-> s.logs \o TextCorrectionLogs(s.df)] : s \in coerced}
      filled == {[df |-> ParseDatesAndImpute(s.df),
                  logs |-> s.logs \o DateLogs(s.df)] : s \in fixed}
      dedup == {[df |-> drop_duplicates(s.df), logs |-> s.logs,
                 before_dedup |-> NRows(s.df)] : s \in filled}
      masked == {[s |-> s,
                  m |-> IF mask THEN detect_and_mask_pii(s.df)
                        ELSE [df |-> s.df, pii_count |-> 0]] : s \in dedup}
      done == {[df |-> p.m.df,
                rows_original |-> NRows(df0),
                duplicates_removed |-> p.s.before_dedup - NRows(p.s.df),
                pii_count |-> p.m.pii_count,
                logs |-> p.s.logs \o MaskLogs(p.m.pii_count)] : p \in masked}
  IN  CHOOSE p \in done : TRUE

\* process_dataset: the results it may return, one for each verdict of the
\* detector, or the ValueError it raises
process_dataset(file_content, filename, mask) ==
  Let(ReadFile(file_content, filename),
      LAMBDA read :
        IF ~read.ok THEN {read}
        ELSE Let(Prepared(read.df, mask),
                 LAMBDA p :
                   {Returned(p.df, p.rows_original, p.duplicates_removed, p.pii_count,
                             p.logs, mask, flagged) : flagged \in Verdicts(p.df)}))

(***************************************************************************)
(* The upload handler (main.py, lines 110-184)                             *)
(***************************************************************************)

\* DataFrame.to_csv(index=False): the bytes of the csv file of df; a missing
\* cell is written as an empty field
to_csv(df) ==
  FileContent("csv", df.cols,
              [i \in 1..NRows(df) |->
                 [j \in 1..NCols(df) |->
                    IF df.rows[i][j].t = "nan" THEN <<>>
                    ELSE AsStr(df.rows[i][j], df.dtype[j])]])

\* lines 36-37: the digest stands for the bytes it is taken of (no two
\* contents of the model collide)
calculate_hash(content) == [sha256 |-> content]

\* os.path.splitext(filename)[1]
SplitExt(name) ==
  LET dots == {i \in 1..Len(name) : name[i] = 46}
  IN  IF dots = {} THEN <<>>
      ELSE SubSeq(name, CHOOSE i \in dots : \A k \in dots : k <= i, Len(name))

\* the file UPLOAD_DIR/<request_id><ext>
UploadedFile(request_id, ext, content) ==
  [request_id |-> request_id, ext |-> ext, content |-> content]

\* the files CLEANED_DIR/<request_id>_insights.json and
\* CLEANED_DIR/<request_id>_cleaned.csv
CleanedFiles(request_id, insights, df) ==
  [request_id |-> request_id, insights |-> insights, cleaned |-> to_csv(df)]

HTTPException(status_code, detail) ==
  [status_code |-> status_code, detail |-> detail, insights |-> <<>>, cleaned |-> <<>>]

DataResponse(insights, df) ==
  [status_code |-> 200, detail |-> <<>>, insights |-> <<insights>>, cleaned |-> <<df>>]

\* lines 123-126: the frame read of a file whose hash is known, <<>> when
\* an exception leaves the handler (read_csv again, as latin1, after the
\* first reader has raised)
ReadAgain(file_content, filename) ==
  IF file_content.kind = "csv" THEN <<ReadTable(file_content)>>
  ELSE IF file_content.kind = "xlsx" /\ ~EndsWith(filename, dot_csv)
  THEN <<ReadTable(file_content)>>
  ELSE <<>>

\* lines 128-146
CleanInsights(df) ==
  [rows_original |-> NRows(df),
   rows_cleaned |-> NRows(df),
   duplicates_removed |-> 0,
   anomalies_detected |-> 0,
   pii_masked |-> 0,
   quality_score |-> 10000,
   logs |-> <<[what |-> "File fingerprint matched", col |-> <<>>, a |-> <<>>, b |-> <<>>]>>,
   numeric_columns |-> NumericColumns(df),
   summary |-> [processed |-> NRows(df), tier |-> "already processed",
                removed |-> <<0, 0>>, pii |-> 0],
   generated_sql |-> [create |-> <<>>, inserts |-> <<>>],
   column_stats |-> get_column_stats(df),
   correlation_matrix |-> get_correlation_matrix(df)]

\* lines 121-156: the upload of a file whose hash is in the registry
AlreadyClean(file_content, filename, request_id) ==
  Let(ReadAgain(file_content, filename),
      LAMBDA read :
        IF read = <<>>
        THEN [response |-> HTTPException(500, <<"Internal Server Error">>),
              uploaded |-> {}, cleaned |-> {}, hashes |-> {}]
        ELSE Let(CleanInsights(read[1]),
                 LAMBDA insights :
                   [response |-> DataResponse(insights, read[1]),
                    uploaded |-> {UploadedFile(request_id, SplitExt(filename), file_content)},
                    cleaned |-> {CleanedFiles(request_id, insights, read[1])},
                    hashes |-> {}]))

\* lines 158-184 for one result of process_dataset: the uploaded file is
\* written first and removed when process_dataset raises
Processed(result, file_content, filename, request_id) ==
  IF ~result.ok
  THEN [response |-> HTTPException(400, result.message),
        uploaded |-> {}, cleaned |-> {}, hashes |-> {}]
  ELSE [response |-> DataResponse(result.insights, result.df_clean),
        uploaded |-> {UploadedFile(request_id, Lower(SplitExt(filename)), file_content)},
        cleaned |-> {CleanedFiles(request_id, result.insights, result.df_clean)},
        hashes |-> {calculate_hash(to_csv(result.df_clean))}]

\* upload_file: what the handler may answer, write and add to the registry
upload_file(file_content, filename, mask, known, request_id) ==
  IF calculate_hash(file_content) \in known
  THEN {AlreadyClean(file_content, filename, request_id)}
  ELSE {Processed(result, file_content, filename, request_id) :
          result \in process_dataset(file_content, filename, mask)}

(***************************************************************************)
(* The question endpoint (main.py, lines 39-55 and 186-192)                *)
(***************************************************************************)

\* lines 48-50: the words of each operator
greater_words ==
  << S(<<"g", "r", "e", "a", "t", "e", "r">>), S(<<"m", "o", "r", "e">>),
     S(<<"a", "b", "o", "v", "e">>), S(<<"o", "v", "e", "r">>),
     S(<<"h", "i", "g", "h", "e", "r">>), S(<<">">>) >>
less_words ==
  << S(<<"l", "e", "s", "s">>), S(<<"l", "o", "w", "e", "r">>),
     S(<<"u", "n", "d", "e", "r">>), S(<<"b", "e", "l", "o", "w">>), S(<<"<">>) >>
equal_words ==
  << S(<<"e", "q", "u", "a", "l">>), S(<<"i", "s">>), S(<<"m", "a", "t", "c", "h">>),
     S(<<"s", "a", "m", "e">>), S(<<"=">>) >>

\* any(w in query for w in words)
AnyIn(words, query) == \E k \in 1..Len(words) : Contains(query, words[k])

\* line 51: r"[-+]?\d*\.\d+|\d+"
NUMBER_PATTERN ==
  Alt(<< Cat(<< Opt(Cls({Ord("-"), Ord("+")})), Rep(Cls(Digits), 0, -1), Lit("."),
                Plus(Cls(Digits)) >>),
         Plus(Cls(Digits)) >>)

\* line 42: sorted(columns, key=len, reverse=True); the sort is stable, so
\* names of one length keep their order
LongerFirst(columns, i, k) ==
  Len(columns[i]) > Len(columns[k]) \/ (Len(columns[i]) = Len(columns[k]) /\ i < k)

columns_sorted(columns) ==
  [p \in 1..Len(columns) |->
     columns[CHOOSE k \in 1..Len(columns) :
               1 + Cardinality({i \in 1..Len(columns) : LongerFirst(columns, i, k)}) = p]]

\* lines 41-46: <<col>> for the first name of the sorted list that is in
\* the query, <<>> for None
target_col(query, sorted) ==
  Let({p \in 1..Len(sorted) : Contains(query, Lower(sorted[p]))},
      LAMBDA hits : IF hits = {} THEN <<>> ELSE <<sorted[Min(hits)]>>)

\* lines 48-50
operator(query) ==
  IF AnyIn(greater_words, query) THEN S(<<">">>)
  ELSE IF AnyIn(less_words, query) THEN S(<<"<">>)
  ELSE IF AnyIn(equal_words, query) THEN S(<<"=">>)
  ELSE S(<<"=">>)

\* lines 51-52: the value, <<>> for None
LastOf(seq) == seq[Len(seq)]

value(query) ==
  Let(FindAll(NUMBER_PATTERN, query, 1),
      LAMBDA numbers :
        IF numbers # <<>> THEN LastOf(numbers)
        ELSE Let(Split(query),
                 LAMBDA words : IF Len(words) > 1 THEN LastOf(words) ELSE <<>>))

\* line 55: f"{target_col} {operator} {value}"
FilterString(col, op, val) == col \o <<32>> \o op \o <<32>> \o val

\* lines 39-55; "" is <<>>
interpret_natural_language(query, columns) ==
  Let(Lower(query),
      LAMBDA q :
        Let(target_col(q, columns_sorted(columns)),
            LAMBDA col :
              IF col = <<>> \/ col[1] = <<>> THEN <<>>
              ELSE Let(value(q),
                       LAMBDA val : IF val = <<>> THEN <<>>
                                    ELSE FilterString(col[1], operator(q), val))))

\* lines 186-192: the AskResponse
ask_ai(query, columns) ==
  Let(interpret_natural_language(query, columns),
      LAMBDA filter_str :
        [filter_string |-> filter_str,
         explanation |-> IF filter_str = <<>> THEN <<"I couldn't quite understand that.">>
                         ELSE <<"Applying filter: ", filter_str>>])

(***************************************************************************)
(* State                                                                   *)
(***************************************************************************)

VARIABLES
  pc,                  \* the step process_dataset is at
  filename,            \* the arguments of the call
  file_content,
  mask_pii,
  df,                  \* the frame of process_dataset
  df_in,               \* the frame as the last step received it
  logs,
  rows_original,       \* original_shape[0]
  duplicates_removed,
  pii_count,
  out,                 \* what the call returned or raised
  known_hashes,        \* the registry of HASH_DB_FILE
  uploaded_files,      \* the files of UPLOAD_DIR
  cleaned_files,       \* the files of CLEANED_DIR
  requests,            \* the uploads served
  query,               \* the AskRequest of a call of ask_ai
  columns

vars == <<pc, filename, file_content, mask_pii, df, df_in, logs, rows_original,
          duplicates_removed, pii_count, out, known_hashes, uploaded_files,
          cleaned_files, requests, query, columns>>

locals == <<df, df_in, logs, rows_original, duplicates_removed, pii_count>>
arguments == <<filename, file_content, mask_pii>>
server == <<known_hashes, uploaded_files, cleaned_files, requests>>
question == <<query, columns>>

NoFrame == Frame(<<>>, <<>>, <<>>, <<>>)
NoResult == [ok |-> FALSE, error |-> "", message |-> <<>>]

\* a server that has served nothing
NoUploads ==
  /\ known_hashes = {}
  /\ uploaded_files = {}
  /\ cleaned_files = {}
  /\ requests = 0

\* no question has been asked
NoQuestion == query = <<>> /\ columns = <<>>

\* a call that has done nothing
NoLocals ==
  /\ df_in = NoFrame
  /\ logs = <<>>
  /\ rows_original = 0
  /\ duplicates_removed = 0
  /\ pii_count = 0
  /\ out = NoResult

(***************************************************************************)
(* process_dataset step by step                                            *)
(***************************************************************************)

Init ==
  /\ pc = "start"
  /\ \E u \in Uploads : filename = u[1] /\ file_content = u[2]
  /\ mask_pii \in BOOLEAN
  /\ df = NoFrame
  /\ NoLocals
  /\ NoUploads
  /\ NoQuestion

\* lines 238-251
Ingest ==
  /\ pc = "start"
  /\ \E read \in {ReadFile(file_content, filename)} :
       IF read.ok
       THEN /\ df' = read.df
            /\ rows_original' = NRows(read.df)
            /\ pc' = "read"
            /\ out' = out
       ELSE /\ out' = read
            /\ pc' = "raised"
            /\ UNCHANGED <<df, rows_original>>
  /\ df_in' = df
  /\ UNCHANGED <<arguments, question, logs, duplicates_removed, pii_count, server>>

\* a step that maps the frame and appends to the logs
Step(from, to, new_df, new_logs) ==
  /\ pc = from
  /\ pc' = to
  /\ df_in' = df
  /\ df' = new_df
  /\ logs' = logs \o new_logs

\* lines 253-256
Normalize ==
  /\ Step("read", "normalized", NormalizeText(df), <<>>)
  /\ UNCHANGED <<arguments, question, rows_original, duplicates_removed, pii_count, out, server>>

\* lines 258-267
Coerce ==
  /\ Step("normalized", "coerced", CoerceNumeric(df), CoerceLogs(df))
  /\ UNCHANGED <<arguments, question, rows_original, duplicates_removed, pii_count, out, server>>

\* line 269
CorrectText ==
  /\ Step("coerced", "corrected", smart_text_correction(df), TextCorrectionLogs(df))
  /\ UNCHANGED <<arguments, question, rows_original, duplicates_removed, pii_count, out, server>>

\* lines 271-279
Impute ==
  /\ Step("corrected", "imputed", ParseDatesAndImpute(df), DateLogs(df))
  /\ UNCHANGED <<arguments, question, rows_original, duplicates_removed, pii_count, out, server>>

\* lines 281-283
Deduplicate ==
  /\ Step("imputed", "deduplicated", drop_duplicates(df), <<>>)
  /\ duplicates_removed' = NRows(df) - NRows(df')
  /\ UNCHANGED <<arguments, question, rows_original, pii_count, out, server>>

\* lines 285-288
MaskPii ==
  /\ \E masked \in {IF mask_pii THEN detect_and_mask_pii(df)
                    ELSE [df |-> df, pii_count |-> 0]} :
       /\ Step("deduplicated", "masked", masked.df, MaskLogs(masked.pii_count))
       /\ pii_count' = masked.pii_count
  /\ UNCHANGED <<arguments, question, rows_original, duplicates_removed, out, server>>

\* lines 290-341: the detector's verdict, the artifacts, the return
DetectAndReport ==
  /\ pc = "masked"
  /\ \E flagged \in Verdicts(df) :
       /\ out' = Returned(df, rows_original, duplicates_removed, pii_count, logs,
                          mask_pii, flagged)
       /\ df' = out'.df_clean
  /\ pc' = "returned"
  /\ df_in' = df
  /\ UNCHANGED <<arguments, question, logs, rows_original, duplicates_removed, pii_count, server>>

Next ==
  \/ Ingest
  \/ Normalize
  \/ Coerce
  \/ CorrectText
  \/ Impute
  \/ Deduplicate
  \/ MaskPii
  \/ DetectAndReport

Spec == Init /\ [][Next]_vars

(***************************************************************************)
(* smart_text_correction applied twice to a text column                    *)
(***************************************************************************)

\* the most cells of a column that hold the same word
MaxFreq == 4

Repeat(v, n) == [i \in 1..n |-> v]

\* the frame of one text column with a cells "Mango", b cells "Mngo" and
\* c cells "Mano"
WordsFrame(a, b, c) ==
  Let(Repeat(Txt(Mango), a) \o Repeat(Txt(Mngo), b) \o Repeat(Txt(Mano), c),
      LAMBDA cells :
        Frame(<<City>>, <<"object">>, [i \in 1..Len(cells) |-> i],
              [i \in 1..Len(cells) |-> <<cells[i]>>]))

InitFuzzy ==
  /\ pc = "column"
  /\ \E a \in 0..MaxFreq, b \in 0..MaxFreq, c \in 0..MaxFreq : df = WordsFrame(a, b, c)
  /\ filename = <<>>
  /\ file_content = Junk
  /\ mask_pii = FALSE
  /\ NoLocals
  /\ NoUploads
  /\ NoQuestion

CorrectOnce ==
  /\ Step("column", "corrected once", smart_text_correction(df), TextCorrectionLogs(df))
  /\ UNCHANGED <<arguments, question, rows_original, duplicates_removed, pii_count, out, server>>

CorrectAgain ==
  /\ Step("corrected once", "corrected twice", smart_text_correction(df),
          TextCorrectionLogs(df))
  /\ UNCHANGED <<arguments, question, rows_original, duplicates_removed, pii_count, out, server>>

NextFuzzy ==
  \/ CorrectOnce
  \/ CorrectAgain

SpecFuzzy == InitFuzzy /\ [][NextFuzzy]_vars

(***************************************************************************)
(* generate_sql_log on frames of more rows than it inserts                 *)
(***************************************************************************)

\* the most rows of a cleaned frame handed to generate_sql_log
MaxSqlRows == 52

Id == S(<<"I", "d">>)

\* the columns of the frames: for each its name, its dtype and its cell in
\* row i; the dates of some rows are missing (NaT)
SqlColumns(shift) ==
  << [name |-> Id, dtype |-> "int64", cell |-> [i \in 1..MaxSqlRows |-> Num(2 * i)]],
     [name |-> Date, dtype |-> "datetime64",
      cell |-> [i \in 1..MaxSqlRows |->
                  IF (i + shift) % 3 = 0 THEN NaN ELSE Stamp(20200100 + (i % 28) + 1)]],
     [name |-> City, dtype |-> "object",
      cell |-> [i \in 1..MaxSqlRows |->
                  IF (i + shift) % 2 = 0 THEN Txt(Mango) ELSE Txt(Mngo)]] >>

\* the frame of the first C columns and R rows
SqlFrame(R, C, shift) ==
  Frame([j \in 1..C |-> SqlColumns(shift)[j].name],
        [j \in 1..C |-> SqlColumns(shift)[j].dtype],
        [i \in 1..R |-> i],
        [i \in 1..R |-> [j \in 1..C |-> SqlColumns(shift)[j].cell[i]]])

InitSql ==
  /\ pc = "cleaned"
  /\ \E R \in 0..MaxSqlRows, C \in 1..3, shift \in 0..1 : df = SqlFrame(R, C, shift)
  /\ filename = <<>>
  /\ file_content = Junk
  /\ mask_pii = FALSE
  /\ NoLocals
  /\ NoUploads
  /\ NoQuestion

\* line 314
ExportSql ==
  /\ pc = "cleaned"
  /\ pc' = "exported"
  /\ out' = [ok |-> TRUE, generated_sql |-> generate_sql_log(df)]
  /\ UNCHANGED <<arguments, question, locals, server>>

NextSql == ExportSql

SpecSql == InitSql /\ [][NextSql]_vars

(***************************************************************************)
(* Uploads, one after the other                                            *)
(***************************************************************************)

\* the most uploads the server is sent
MaxUploads == 2

\* the files a user has to upload; a user may also upload a cleaned file
\* the server has stored
UserFiles ==
  { FileContent("csv", <<Contact>>, << <<john>>, <<phone>> >>),
    FileContent("csv", <<Age>>, << <<S(<<"4">>)>> >>),
    FileContent("xlsx", <<City>>, << <<mango>> >>),
    Junk }

\* lines 24-29
load_known_hashes(registry) == registry

\* lines 31-34
save_new_hash(registry, file_hash) == load_known_hashes(registry) \cup {file_hash}

RECURSIVE SaveAll(_, _)
SaveAll(registry, hashes) ==
  IF hashes = {} THEN registry
  ELSE LET h == CHOOSE h \in hashes : TRUE
       IN  SaveAll(save_new_hash(registry, h), hashes \ {h})

InitUpload ==
  /\ pc = "serving"
  /\ filename = <<>>
  /\ file_content = Junk
  /\ mask_pii = FALSE
  /\ df = NoFrame
  /\ NoLocals
  /\ NoUploads
  /\ NoQuestion

\* one request to /upload, from the read of the file to the response
Upload ==
  /\ requests < MaxUploads
  /\ \E name \in FileNames, mask \in BOOLEAN,
        content \in UserFiles \cup {f.cleaned : f \in cleaned_files} :
       \E r \in upload_file(content, name, mask, load_known_hashes(known_hashes),
                            requests + 1) :
         /\ filename' = name
         /\ file_content' = content
         /\ mask_pii' = mask
         /\ out' = r.response
         /\ uploaded_files' = uploaded_files \cup r.uploaded
         /\ cleaned_files' = cleaned_files \cup r.cleaned
         /\ known_hashes' = SaveAll(known_hashes, r.hashes)
  /\ requests' = requests + 1
  /\ UNCHANGED <<pc, locals, question>>

NextUpload == Upload

SpecUpload == InitUpload /\ [][NextUpload]_vars

(***************************************************************************)
(* Questions to /ask                                                       *)
(***************************************************************************)

Name == S(<<"N", "a", "m", "e">>)
Rate == S(<<"R", "a", "t", "e">>)
AgeGroup == S(<<"A", "g", "e", " ", "G", "r", "o", "u", "p">>)

\* the parts a query is made of: what it is about, the relation, and the
\* comparand; any of them may be left out
Subjects ==
  { <<>>, Age, S(<<"a", "g", "e">>), Name, AgeGroup,
    S(<<"t", "h", "e", " ", "R", "a", "t", "e">>) }
Relations ==
  { <<>>, S(<<"g", "r", "e", "a", "t", "e", "r", " ", "t", "h", "a", "n">>),
    S(<<"i", "s", " ", "m", "o", "r", "e", " ", "t", "h", "a", "n">>),
    S(<<"l", "e", "s", "s", " ", "t", "h", "a", "n">>),
    S(<<"i", "s", " ", "b", "e", "l", "o", "w">>),
    S(<<"i", "s">>), S(<<">">>), S(<<"<">>), S(<<"i", "s", " ", "n", "o", "t", " ", "o", "v", "e", "r">>) }
Comparands ==
  { <<>>, S(<<"3", "0">>), S(<<"-", "5">>), S(<<"-", "1", ".", "5">>), S(<<"B", "o", "b">>),
    S(<<"3", "0", " ", "y", "e", "a", "r", "s">>), S(<<"2", " ", "o", "r", " ", "3">>) }

\* the parts that are there, with a blank between them
RECURSIVE Sentence(_)
Sentence(parts) ==
  IF parts = <<>> THEN <<>>
  ELSE IF Head(parts) = <<>> THEN Sentence(Tail(parts))
  ELSE Let(Sentence(Tail(parts)),
           LAMBDA rest : IF rest = <<>> THEN Head(parts) ELSE Head(parts) \o <<32>> \o rest)

Queries == {Sentence(<<s, r, c>>) : s \in Subjects, r \in Relations, c \in Comparands}

\* the column lists of the requests; a frame may have a column of no name
ColumnLists ==
  { <<Age, Name>>, <<Name, Age>>, <<Age, AgeGroup>>, <<Name, Rate>>, <<Rate, Name, Age>>,
    <<>>, <<<<>>, City>> }

InitAsk ==
  /\ pc = "asking"
  /\ query \in Queries
  /\ columns \in ColumnLists
  /\ filename = <<>>
  /\ file_content = Junk
  /\ mask_pii = FALSE
  /\ df = NoFrame
  /\ NoLocals
  /\ NoUploads

\* one request to /ask
Ask ==
  /\ pc = "asking"
  /\ pc' = "answered"
  /\ out' = ask_ai(query, columns)
  /\ UNCHANGED <<arguments, question, df, df_in, logs, rows_original, duplicates_removed,
                 pii_count, server>>

NextAsk == Ask

SpecAsk == InitAsk /\ [][NextAsk]_vars

(***************************************************************************)
(* Properties of process_dataset (specification Spec)                      *)
(***************************************************************************)

\* the call has returned its cleaned frame and its insights
HasReturned == pc = "returned" /\ out.ok

\* the steps between the read and the report that are not the deduplication
KeepsRows == pc \in {"normalized", "coerced", "corrected", "imputed", "masked"}

\* C1: the insights of every returned call satisfy
\* 0 <= rows_cleaned <= rows_original and
\* rows_cleaned = rows_original - duplicates_removed - anomalies_detected,
\* where rows_original is the number of data lines of the file and
\* rows_cleaned the number of rows of the cleaned frame; normalisation,
\* coercion, fuzzy correction, imputation and PII masking leave the number
\* of rows as it was, for both values of mask_pii.
C1_RowAccounting ==
  /\ KeepsRows => NRows(df) = NRows(df_in)
  /\ HasReturned =>
       /\ out.insights.rows_original = Len(file_content.lines)
       /\ out.insights.rows_cleaned = NRows(out.df_clean)
       /\ 0 <= out.insights.rows_cleaned
       /\ out.insights.rows_cleaned <= out.insights.rows_original
       /\ out.insights.rows_cleaned =
            out.insights.rows_original - out.insights.duplicates_removed
              - out.insights.anomalies_detected

\* a call that has removed duplicates and anomalies, with masking on
C1_Witness ==
  /\ HasReturned
  /\ mask_pii
  /\ out.insights.duplicates_removed > 0
  /\ out.insights.anomalies_detected > 0
  /\ out.insights.rows_cleaned > 0

\* C2: quality_score lies in [0, 100]; when rows_original > 0 it is the
\* retained-row percentage 100 - 100 * (rows_original - rows_cleaned) /
\* rows_original, not below 0, rounded to two decimals (the insights hold it
\* in hundredths); when rows_original = 0 it is exactly 0.
C2_QualityScore ==
  HasReturned =>
    /\ 0 <= out.insights.quality_score
    /\ out.insights.quality_score <= 10000
    /\ IF out.insights.rows_original = 0
       THEN out.insights.quality_score = 0
       ELSE \* |score - 100 * cleaned / original| <= 1/2 hundredth
            /\ 2 * (out.insights.quality_score * out.insights.rows_original
                      - 10000 * out.insights.rows_cleaned) <= out.insights.rows_original
            /\ 2 * (10000 * out.insights.rows_cleaned
                      - out.insights.quality_score * out.insights.rows_original)
                 <= out.insights.rows_original

\* a call that returns a score that is no whole percentage (2 rows of 3)
C2_Witness ==
  /\ HasReturned
  /\ out.insights.rows_original = 3
  /\ out.insights.rows_cleaned = 2
  /\ out.insights.quality_score = 6667

NoEqualRows(f) ==
  \A i \in 1..NRows(f) : \A k \in 1..NRows(f) : i # k => f.rows[i] # f.rows[k]

\* the rows of f are rows of the file in the order of the file
InFileOrder(f) ==
  \A i \in 1..NRows(f) : \A k \in 1..NRows(f) : i < k => f.index[i] < f.index[k]

\* C3 as stated: the cleaned frame never holds two identical rows, for both
\* values of mask_pii.
C3_NoIdenticalRows == HasReturned => NoEqualRows(out.df_clean)

\* C3, amended: the deduplication keeps exactly the first occurrence of every
\* row of the imputed frame, unchanged and in order, so the deduplicated
\* frame holds no two identical rows; the cleaned frame keeps its rows in
\* the order of the file, and holds no two identical rows when mask_pii is
\* false.  (With mask_pii true the masking, which runs after the
\* deduplication, may make two rows identical.)
C3_FirstOccurrences ==
  /\ pc = "deduplicated" =>
       /\ NoEqualRows(df)
       /\ InFileOrder(df)
       /\ \A i \in 1..NRows(df_in) :
            (\E k \in 1..NRows(df) : df.index[k] = df_in.index[i] /\ df.rows[k] = df_in.rows[i])
              <=> (\A m \in 1..(i - 1) : df_in.rows[m] # df_in.rows[i])
  /\ HasReturned =>
       /\ InFileOrder(out.df_clean)
       /\ ~mask_pii => NoEqualRows(out.df_clean)

\* a call without masking that has dropped a duplicate and kept two rows
C3_Witness ==
  /\ HasReturned
  /\ ~mask_pii
  /\ out.insights.duplicates_removed > 0
  /\ NRows(out.df_clean) > 1

\* v is a p-th smallest of the numbers cells[i].n, i in idx
IsKthSmallest(cells, idx, p, v) ==
  /\ \E i \in idx : cells[i].n = v
  /\ Cardinality({i \in idx : cells[i].n < v}) < p
  /\ p <= Cardinality({i \in idx : cells[i].n <= v})

\* cell is the median of the non-missing cells, or 0 when there is none
IsMedianOrZero(cells, cell) ==
  LET idx == NotNa(cells)
      N == Cardinality(idx)
  IN  /\ cell.t = "num"
      /\ IF N = 0 THEN cell.n = 0
         ELSE IF N % 2 = 1 THEN IsKthSmallest(cells, idx, (N + 1) \div 2, cell.n)
         ELSE \E i \in idx, k \in idx :
                /\ IsKthSmallest(cells, idx, N \div 2, cells[i].n)
                /\ IsKthSmallest(cells, idx, N \div 2 + 1, cells[k].n)
                /\ 2 * cell.n = cells[i].n + cells[k].n

\* C4: after the imputation step no Numeric column holds a missing cell:
\* every missing cell of a Numeric column holds the median of the column's
\* non-missing cells over all rows (the step runs before the
\* deduplication), or 0 when the column has none; the other cells of the
\* column are as they were, and a column that is neither Numeric nor parsed
\* as a date is unchanged.
C4_Imputation ==
  pc = "imputed" =>
    \A j \in 1..NCols(df) :
      IF IsNumericDtype(df.dtype[j])
      THEN \A i \in 1..NRows(df) :
             /\ df.rows[i][j].t # "nan"
             /\ IF df_in.rows[i][j].t = "nan"
                THEN IsMedianOrZero(Column(df_in, j), df.rows[i][j])
                ELSE df.rows[i][j] = df_in.rows[i][j]
      ELSE ~IsDateName(df.cols[j]) =>
             Column(df, j) = Column(df_in, j) /\ df.dtype[j] = df_in.dtype[j]

\* a column of the cells 1, 4 and a missing one, filled with 2.5, in a
\* file with a repeated line
C4_Witness ==
  /\ pc = "imputed"
  /\ \E j \in 1..NCols(df) : \E i \in 1..NRows(df) :
       /\ df_in.rows[i][j].t = "nan"
       /\ df.rows[i][j] = Num(5)
  /\ ~NoEqualRows(df)

masked_email ==
  S(<<"J", "*", "*", "*", "@", "E", "x", "a", "m", "p", "l", "e", ".", "C", "o", "m">>)
lower_masked_email ==
  S(<<"j", "*", "*", "*", "@", "e", "x", "a", "m", "p", "l", "e", ".", "c", "o", "m">>)
John == S(<<"J", "o", "h", "n", "@", "E", "x", "a", "m", "p", "l", "e", ".", "C", "o", "m">>)
Jane == S(<<"J", "a", "n", "e", "@", "E", "x", "a", "m", "p", "l", "e", ".", "C", "o", "m">>)
redaction == S(<<"*", "*", "*", "*", "*", "*", "*", "*">>)

\* the call has returned the cleaned frame of a file of the one column
\* Contact
ContactsReturned == HasReturned /\ file_content.header = <<Contact>>

\* the field of the file that row k of the cleaned frame was read of
FieldOf(k) == file_content.lines[out.df_clean.index[k]][1]

LinesWith(field) ==
  Cardinality({i \in 1..Len(file_content.lines) : file_content.lines[i][1] = field})

HeaderOnly ==
  /\ pc # "start"
  /\ Len(file_content.lines) = 0
  /\ \/ EndsWith(filename, dot_csv) /\ file_content.kind = "csv"
     \/ EndsWith(filename, dot_xlsx) /\ file_content.kind = "xlsx"

Triples(matrix) == {matrix[k] : k \in 1..Len(matrix)}

IsSymmetric(matrix) ==
  \A t \in Triples(matrix) :
    \E u \in Triples(matrix) :
      u.x = t.y /\ u.y = t.x /\ u.nan = t.nan /\ u.value = t.value

\* the numeric columns of the cleaned frame
NumericOfClean == {j \in 1..NCols(out.df_clean) : IsNumericDtype(out.df_clean.dtype[j])}

\* the cells of column j of the cleaned frame are all the same number
IsConstant(j) ==
  Cardinality({out.df_clean.rows[i][j] : i \in 1..NRows(out.df_clean)}) < 2

C6_Idempotent ==
  pc = "corrected twice" => df = df_in /\ TextCorrectionLogs(df_in) = <<>>

(***************************************************************************)
(* Properties of the upload handler (specification SpecUpload)             *)
(***************************************************************************)

\* the extension of the name is neither .csv nor .xlsx
Unsupported(name) == ~EndsWith(name, dot_csv) /\ ~EndsWith(name, dot_xlsx)

\* no reader parses the bytes
Unparseable(content) == content.kind = "junk"

\* C7: every upload, after any uploads, of a name with an unsupported
\* extension or of content that cannot be parsed ends in an error with the
\* cause, returns no insights and no cleaned frame, stores no uploaded,
\* cleaned or insights file and adds no hash to the registry.
C7_FailureStoresNothing ==
  [][(Unsupported(filename') \/ Unparseable(file_content')) =>
       /\ out'.status_code # 200
       /\ out'.detail # <<>>
       /\ out'.insights = <<>>
       /\ out'.cleaned = <<>>
       /\ uploaded_files' = uploaded_files
       /\ cleaned_files' = cleaned_files
       /\ known_hashes' = known_hashes]_vars

(***************************************************************************)
(* Properties of generate_sql_log (specification SpecSql)                  *)
(***************************************************************************)

\* C10: for a cleaned frame of R rows and C columns generate_sql_log emits
\* a CREATE TABLE statement of exactly C column definitions and exactly
\* min(R, 50) INSERT statements, in the order of the rows (the i-th holds
\* the Id of row i), each of exactly C values, NULL exactly for a missing
\* cell.
C10_SqlShape ==
  pc = "exported" =>
    /\ Len(out.generated_sql.create) = NCols(df)
    /\ Len(out.generated_sql.inserts) = (IF NRows(df) < 50 THEN NRows(df) ELSE 50)
    /\ \A i \in 1..Len(out.generated_sql.inserts) :
         /\ Len(out.generated_sql.inserts[i]) = NCols(df)
         /\ out.generated_sql.inserts[i][1] = DigitsOf(i)
         /\ \A j \in 1..NCols(df) :
              out.generated_sql.inserts[i][j] = NULL <=> df.rows[i][j].t = "nan"

\* a frame of more than 50 rows and three columns, with a missing date in
\* its first rows, has been exported
C10_Witness ==
  /\ pc = "exported"
  /\ NRows(df) > 50
  /\ NCols(df) = 3
  /\ Len(out.generated_sql.inserts) = 50
  /\ \E i \in 1..50 : out.generated_sql.inserts[i][2] = NULL

(***************************************************************************)
(* Properties of interpret_natural_language (specification SpecAsk)        *)
(***************************************************************************)

\* the columns whose names occur in the query, whatever the case
Occurring(q, cols) == {i \in 1..Len(cols) : Contains(Lower(q), Lower(cols[i]))}

\* those of them of the longest name
LongestOccurring(q, cols) ==
  {i \in Occurring(q, cols) : \A k \in Occurring(q, cols) : Len(cols[k]) <= Len(cols[i])}

greater_keywords ==
  << S(<<"g", "r", "e", "a", "t", "e", "r">>), S(<<"m", "o", "r", "e">>),
     S(<<"a", "b", "o", "v", "e">>), S(<<"o", "v", "e", "r">>),
     S(<<"h", "i", "g", "h", "e", "r">>) >>
less_keywords ==
  << S(<<"l", "e", "s", "s">>), S(<<"l", "o", "w", "e", "r">>),
     S(<<"u", "n", "d", "e", "r">>), S(<<"b", "e", "l", "o", "w">>) >>

ReferenceOperator(q) ==
  IF AnyIn(greater_keywords, Lower(q)) THEN S(<<">">>)
  ELSE IF AnyIn(less_keywords, Lower(q)) THEN S(<<"<">>)
  ELSE S(<<"=">>)

\* the last numeric literal of the query or, when it has no number, its
\* last whitespace-delimited token; <<>> when it has neither
ReferenceComparand(q) ==
  IF FindAll(NUMBER_PATTERN, q, 1) # <<>> THEN LastOf(FindAll(NUMBER_PATTERN, q, 1))
  ELSE IF Split(q) # <<>> THEN LastOf(Split(q))
  ELSE <<>>

\* C11: interpret_natural_language answers as the reference interpreter:
\* the empty string exactly when no column name occurs in the query
\* (case-insensitive substring) or no comparand can be extracted, and
\* otherwise "<col> <op> <value>" for the longest column name occurring in
\* the query, the operator of the keyword that occurs ('>' for greater,
\* more, above, over, higher; '<' for less, lower, under, below; '='
\* otherwise) and the last numeric literal of the query or, without a
\* number, its last whitespace-delimited token.
C11_Reference ==
  pc = "answered" =>
    IF Occurring(query, columns) = {} \/ ReferenceComparand(query) = <<>>
    THEN out.filter_string = <<>>
    ELSE \E i \in LongestOccurring(query, columns) :
           out.filter_string = FilterString(columns[i], ReferenceOperator(query),
                                            ReferenceComparand(query))

\* "Age greater than 30" over ["Age", "Name"] is answered "Age > 30"
C11_ScenarioE ==
  /\ pc = "answered"
  /\ query = S(<<"A", "g", "e", " ", "g", "r", "e", "a", "t", "e", "r", " ", "t", "h", "a",
                 "n", " ", "3", "0">>)
  /\ columns = <<Age, Name>>
  /\ out.filter_string = S(<<"A", "g", "e", " ", ">", " ", "3", "0">>)

(***************************************************************************)
(* The order of the stages (specification Spec)                            *)
(***************************************************************************)

\* C12: every column is classified and converted before the fuzzy corrector
\* runs, so the corrector changes cells of Text columns only: it leaves
\* every cell of a column detected as Date (its name holds "date" or
\* "time") and of a Numeric column as it was.
C12_CorrectorSparesDates ==
  pc = "corrected" =>
    \A j \in 1..NCols(df) :
      (IsDateName(df.cols[j]) \/ IsNumericDtype(df_in.dtype[j])) =>
        Column(df, j) = Column(df_in, j)

\* the columns of the feature matrix: the Numeric columns and the Text
\* columns, which are label-encoded
FeatureColumns(f) ==
  {j \in 1..NCols(f) : IsNumericDtype(f.dtype[j]) \/ IsObjectDtype(f.dtype[j])}

\* the detector may flag a row of the frame
MayFlag == ENABLED (DetectAndReport /\ out'.insights.anomalies_detected > 0)

\* C13: the anomaly stage is skipped (no row removed, anomalies_detected = 0)
\* exactly when the deduplicated (and masked) frame has no feature column,
\* neither a Numeric nor a label-encoded Text column; when it has one the
\* detector runs, and the rows it flags are the rows removed.
C13_SkippedWithoutFeatures ==
  /\ pc = "masked" /\ NRows(df) > 0 => (FeatureColumns(df) = {} <=> ~MayFlag)
  /\ HasReturned =>
       out.insights.anomalies_detected = NRows(df_in) - NRows(out.df_clean)

(***************************************************************************)
(* Masking across uploads (specification SpecUpload)                       *)
(***************************************************************************)

\* the text holds an e-mail address or a telephone number
HoldsPii(text) == ReContains(EMAIL_PATTERN, text) \/ ReContains(PHONE_PATTERN, text)

\* no text cell of the frame holds one
FrameFreeOfPii(f) ==
  \A i \in 1..NRows(f) : \A j \in 1..NCols(f) :
    f.rows[i][j].t = "str" => ~HoldsPii(f.rows[i][j].s)

\* no field of a text column of the csv file holds one
FileFreeOfPii(content) ==
  \A i \in 1..Len(content.lines) : \A j \in 1..Len(content.lines[i]) :
    ParseNumber(content.lines[i][j]).ok \/ ~HoldsPii(content.lines[i][j])

\* C14: after any uploads, an upload made with mask_pii = true returns and
\* stores a cleaned frame none of whose text cells holds a match of the
\* e-mail or the telephone pattern.
C14_MaskedUploadsHoldNoPii ==
  (requests > 0 /\ mask_pii /\ out.status_code = 200) =>
    /\ FrameFreeOfPii(out.cleaned[1])
    /\ \A f \in cleaned_files : f.request_id = requests => FileFreeOfPii(f.cleaned)

=============================================================================
